---- MODULE Spec2Model ----
(***************************************************************************)
(* Incremental response delivery of the Zava chatbot component             *)
(* (src/src/frontend/src/components/zava/ZavaChatbot.tsx).                  *)
(*                                                                         *)
(* The component state (messages, isLoading, inputValue, modelType,        *)
(* showSuggestions), the sessionStorage offline flag, the millisecond      *)
(* clock read by Date.now(), and every call of handleSendMessage that has  *)
(* been started (its locals and the await it is suspended at) are the      *)
(* state.  JavaScript runs one handler or one continuation at a time, so   *)
(* each action is the code between two awaits.                             *)
(*                                                                         *)
(* Text is a sequence of one-character strings.  The four fixed texts of   *)
(* the component are one-element sequences holding the text as a whole.    *)
(* A response body is a sequence of tokens: the "data: " prefix, the       *)
(* braces of a payload, one token per payload field, the line feed.  The   *)
(* transport cuts a body between any two tokens.                           *)
(*                                                                         *)
(* The handlers are taken as they can be called, whatever the rendered     *)
(* buttons allow, and each reads the state of the latest render.  The two  *)
(* readings of Date.now() in one call fall in the same millisecond.        *)
(***************************************************************************)
EXTENDS Integers, Sequences, FiniteSets, TLC

VARIABLES
  messages,         \* useState<Message[]>                       (line 38)
  inputValue,       \* useState('')                              (line 39)
  isLoading,        \* useState(false)                           (line 40)
  modelType,        \* useState<'router' | 'benchmark'>          (line 41)
  showSuggestions,  \* useState(true)                            (line 42)
  offlineFlag,      \* sessionStorage 'offlineMode' === 'true'   (line 184)
  now,              \* the clock Date.now() reads                (line 163)
  replayData,       \* replayData.zavaScenarios                  (line 187)
  deliveries,       \* the calls of handleSendMessage started so far
  nResets           \* how many times handleReset has run

vars == <<messages, inputValue, isLoading, modelType, showSuggestions,
          offlineFlag, now, replayData, deliveries, nResets>>

\* ---------------------------------------------------------------- bounds

MaxSubmissions == 2
MaxResets == 1
MaxClock == 1
MaxLines == 3
MaxTextLen == 4
MaxWordsPerChunk == 3

\* ----------------------------------------------------------------- texts

GreetingId == 1
GreetingText == <<"Hi! I'm the Zava AI assistant.">>
ReplayErrorText == <<"I apologize, but I encountered an error in replay mode. Please try again.">>
NoResponseText == <<"I apologize, but I couldn't generate a response. Please try again.">>
ErrorText == <<"I apologize, but I encountered an error. Please try again later.">>
NoModel == ""

SimpleText == <<"S">>
ComplexText == <<"C">>
suggestedMessages == {SimpleText, ComplexText}

IsWhitespace(c) == c \in {" ", "\n"}

RECURSIVE TrimStart(_)
TrimStart(s) ==
  IF s = <<>> THEN <<>>
  ELSE IF IsWhitespace(Head(s)) THEN TrimStart(Tail(s)) ELSE s

RECURSIVE TrimEnd(_)
TrimEnd(s) ==
  IF s = <<>> THEN <<>>
  ELSE IF IsWhitespace(s[Len(s)]) THEN TrimEnd(SubSeq(s, 1, Len(s) - 1)) ELSE s

\* String.prototype.trim
Trim(s) == TrimEnd(TrimStart(s))

\* String.prototype.split(sep) for a one-character separator: always at least
\* one piece, an empty piece between two adjacent separators and at either end.
RECURSIVE SplitFrom(_, _, _)
SplitFrom(s, sep, piece) ==
  IF s = <<>> THEN <<piece>>
  ELSE IF Head(s) = sep THEN <<piece>> \o SplitFrom(Tail(s), sep, <<>>)
  ELSE SplitFrom(Tail(s), sep, Append(piece, Head(s)))

Split(s, sep) == SplitFrom(s, sep, <<>>)

\* Array.prototype.join(sep)
RECURSIVE Join(_, _)
Join(pieces, sep) ==
  IF pieces = <<>> THEN <<>>
  ELSE IF Len(pieces) = 1 THEN pieces[1]
  ELSE pieces[1] \o <<sep>> \o Join(Tail(pieces), sep)

Min(a, b) == IF a < b THEN a ELSE b

\* Array.prototype.slice(from, to), 0-based, to exclusive and clamped
Slice(arr, from, to) == SubSeq(arr, from + 1, Min(to, Len(arr)))

\* ------------------------------------------------------------- messages

Message(id, role, content) ==
  [id |-> id, role |-> role, content |-> content, modelName |-> NoModel]

initialMessages == <<Message(GreetingId, "assistant", GreetingText)>>

\* setMessages(prev => prev.map(msg => msg.id === id ? {...msg, content} : msg))
SetContent(msgs, id, content) ==
  [k \in DOMAIN msgs |->
     IF msgs[k].id = id THEN [msgs[k] EXCEPT !.content = content] ELSE msgs[k]]

\* setMessages(prev => prev.map(msg => msg.id === id ? {...msg, modelName} : msg))
SetModelName(msgs, id, name) ==
  [k \in DOMAIN msgs |->
     IF msgs[k].id = id THEN [msgs[k] EXCEPT !.modelName = name] ELSE msgs[k]]

\* A variant that replaces the content and keeps the model name.
SetFailureKeepsModel(msgs, id, text) ==
  [k \in DOMAIN msgs |->
     IF msgs[k].id = id THEN [msgs[k] EXCEPT !.content = text] ELSE msgs[k]]

\* {...msg, content: <fixed text>, modelName: undefined}
SetFailure(msgs, id, text) ==
  [k \in DOMAIN msgs |->
     IF msgs[k].id = id
     THEN [msgs[k] EXCEPT !.content = text, !.modelName = NoModel]
     ELSE msgs[k]]

\* --------------------------------------------------------------- replay

Script(response, startMs, finishMs, wordsPerChunk, model) ==
  [response |-> response, startStreamingMs |-> startMs,
   finishStreamingMs |-> finishMs, wordsPerChunk |-> wordsPerChunk,
   model |-> model]

NoScript == Script(<<>>, 0, 0, 1, NoModel)

\* for (let i = 0; i < words.length; i += wordsPerChunk)
\*   chunks.push(words.slice(i, i + wordsPerChunk).join(' ') + ' ')
RECURSIVE ChunksFrom(_, _, _)
ChunksFrom(words, i, wordsPerChunk) ==
  IF i < Len(words)
  THEN <<Join(Slice(words, i, i + wordsPerChunk), " ") \o <<" ">>>>
       \o ChunksFrom(words, i + wordsPerChunk, wordsPerChunk)
  ELSE <<>>

\* A variant of the chunking loop that stops at the last full group of words:
\* the claims about the chunks must tell it from the loop of the code.
RECURSIVE ChunksFromFullGroups(_, _, _)
ChunksFromFullGroups(words, i, wordsPerChunk) ==
  IF i + wordsPerChunk <= Len(words)
  THEN <<Join(Slice(words, i, i + wordsPerChunk), " ") \o <<" ">>>>
       \o ChunksFromFullGroups(words, i + wordsPerChunk, wordsPerChunk)
  ELSE <<>>

MakeChunksFullGroups(response, wordsPerChunk) ==
  ChunksFromFullGroups(Split(response, " "), 0, wordsPerChunk)

MakeChunks(response, wordsPerChunk) ==
  ChunksFrom(Split(response, " "), 0, wordsPerChunk)

\* A variant that divides the streaming duration by the number of gaps
\* between the chunks instead of the number of chunks.
DelayPerGap(script, nChunks) ==
  IF nChunks > 1
  THEN [num |-> script.finishStreamingMs - script.startStreamingMs,
        den |-> nChunks - 1]
  ELSE [num |-> 0, den |-> 1]

\* chunks.length > 1 ? streamingDuration / chunks.length : 0, as a fraction
DelayPerChunk(script, nChunks) ==
  IF nChunks > 1
  THEN [num |-> script.finishStreamingMs - script.startStreamingMs,
        den |-> nChunks]
  ELSE [num |-> 0, den |-> 1]

\* ----------------------------------------------------------- deliveries

InFlightPcs == {"startDelay", "chunkDelay", "fetch", "read"}

\* A call of handleSendMessage that has not been made yet.  Besides the
\* locals of the call, a record keeps what the properties refer to: whether
\* the conversation was replaced under it (abandoned), the delays it waited
\* (waits), how many content chunks it wrote (applied), whether it met an
\* error line (sawError), what made it fail (failure) and the place in the
\* list where its placeholder was appended (placeholderAt).
NotStarted ==
  [pc |-> "none", kind |-> "none", assistantMessageId |-> 0,
   accumulatedContent |-> <<>>, script |-> NoScript, chunks |-> <<>>,
   i |-> 0, body |-> <<>>, pos |-> 0,
   abandoned |-> FALSE, waits |-> <<>>, applied |-> 0, sawError |-> FALSE,
   failure |-> "none", placeholderAt |-> 0]

Slots == 1..MaxSubmissions

InFlight(d) == deliveries[d].pc \in InFlightPcs

FixedReplayData ==
  (SimpleText :> [router |-> Script(<<"a", " ", "b">>, 100, 300, 1, "R"),
                  benchmark |-> Script(<<"a">>, 0, 0, 1, "B")])
  @@ (ComplexText :> [router |-> Script(<<>>, 100, 100, 1, "R")])

Init ==
  /\ messages = initialMessages
  /\ inputValue = <<>>
  /\ isLoading = FALSE
  /\ modelType = "router"
  /\ showSuggestions = TRUE
  /\ offlineFlag \in BOOLEAN
  /\ now = GreetingId + 2
  /\ replayData = FixedReplayData
  /\ deliveries = [d \in Slots |-> NotStarted]
  /\ nResets = 0

\* ------------------------------------------------------- live transport

\* One token per payload field: "content", "model", "error", "done".
ContentTokens == {"c:H", "c:i", "c:"}
ModelTokens == {"m:X"}
ErrorTokens == {"e:boom"}
DoneTokens == {"done"}
FieldTokens == ContentTokens \cup ModelTokens \cup ErrorTokens \cup DoneTokens

ContentValue(tok) ==
  CASE tok = "c:H" -> <<"H">>
    [] tok = "c:i" -> <<"i">>
    [] OTHER -> <<>>

ModelValue(tok) == IF tok = "m:X" THEN "X" ELSE NoModel

ErrorValue(tok) == IF tok = "e:boom" THEN "boom" ELSE ""

EmptyObject ==
  [ok |-> TRUE, content |-> <<>>, model |-> NoModel, error |-> "", done |-> FALSE]

SyntaxError == [EmptyObject EXCEPT !.ok = FALSE]

\* The fields of a payload, left to right; a later field of the same name
\* replaces an earlier one.
RECURSIVE ParseFields(_, _)
ParseFields(fields, obj) ==
  IF fields = <<>> THEN obj
  ELSE LET tok == Head(fields) IN
       IF tok \notin FieldTokens THEN SyntaxError
       ELSE ParseFields(Tail(fields),
              CASE tok \in ContentTokens -> [obj EXCEPT !.content = ContentValue(tok)]
                [] tok \in ModelTokens -> [obj EXCEPT !.model = ModelValue(tok)]
                [] tok \in ErrorTokens -> [obj EXCEPT !.error = ErrorValue(tok)]
                [] OTHER -> [obj EXCEPT !.done = TRUE])

\* JSON.parse(line.slice(6)): an object between braces, or a SyntaxError
JSONparse(payload) ==
  IF /\ Len(payload) >= 2
     /\ payload[1] = "{"
     /\ payload[Len(payload)] = "}"
  THEN ParseFields(SubSeq(payload, 2, Len(payload) - 1), EmptyObject)
  ELSE SyntaxError

\* line.startsWith('data: ')
StartsWithData(line) == line # <<>> /\ line[1] = "data: "

\* The locals of the read loop and the list the updates go to.
LoopState(dv, msgs) ==
  [accumulatedContent |-> dv.accumulatedContent, messages |-> msgs,
   isDone |-> FALSE, thrown |-> "none",
   applied |-> dv.applied, sawError |-> dv.sawError]

\* The try block of one line (lines 258-289).
TryLine(st, line, id) ==
  LET data == JSONparse(Tail(line)) IN
  IF ~data.ok THEN [st EXCEPT !.thrown = "SyntaxError"]
  ELSE IF data.error # ""
  THEN [st EXCEPT !.thrown = "Error", !.sawError = TRUE]
  ELSE LET acc == st.accumulatedContent \o data.content
           m1 == IF data.content # <<>>
                 THEN SetContent(st.messages, id, acc) ELSE st.messages
           m2 == IF data.model # NoModel
                 THEN SetModelName(m1, id, data.model) ELSE m1
       IN [st EXCEPT !.accumulatedContent = acc,
                     !.messages = m2,
                     !.applied = IF data.content # <<>> THEN @ + 1 ELSE @,
                     !.isDone = @ \/ data.done]

\* A variant of the handler that lets the exception through to the outer
\* catch.
CatchLineRethrow(st) == st

\* catch (parseError) { ... } (lines 290-295): whatever the try block threw
\* ends here; the handler only logs.
CatchLine(st) == [st EXCEPT !.thrown = "none"]

\* One turn of for (const line of lines) (lines 255-297).
ApplyLine(st, line, id) ==
  IF StartsWithData(line) THEN CatchLine(TryLine(st, line, id)) ELSE st

\* The for loop over the lines of one fragment; an exception leaves it.
RECURSIVE ApplyLines(_, _, _)
ApplyLines(st, lines, id) ==
  IF lines = <<>> \/ st.thrown # "none" THEN st
  ELSE ApplyLines(ApplyLine(st, Head(lines), id), Tail(lines), id)

\* chunk.split('\n') and the for loop (lines 252-297)
ApplyFragment(st, fragment, id) == ApplyLines(st, Split(fragment, "\n"), id)

\* A variant without the substitution of the fixed text.
NoContentFallbackMissing(msgs, id, acc) == msgs

\* if (!accumulatedContent) { ... } (lines 301-309)
NoContentFallback(msgs, id, acc) ==
  IF acc = <<>> THEN SetFailure(msgs, id, NoResponseText) ELSE msgs

\* The lines a backend may send, and the bodies made of them: every line is
\* ended by a line feed.
ContentLine == <<"data: ", "{", "c:H", "}">>
ContentModelLine == <<"data: ", "{", "c:i", "m:X", "}">>
ErrorLine == <<"data: ", "{", "e:boom", "}">>
DoneLine == <<"data: ", "{", "done", "}">>
EmptyContentLine == <<"data: ", "{", "c:", "}">>
CommentLine == <<"junk">>
NotJsonLine == <<"data: ", "junk">>

Lines == {ContentLine, ContentModelLine, ErrorLine, DoneLine,
          EmptyContentLine, CommentLine, NotJsonLine}

RECURSIVE BodyOf(_)
BodyOf(lines) ==
  IF lines = <<>> THEN <<>>
  ELSE Head(lines) \o <<"\n">> \o BodyOf(Tail(lines))

Bodies == {BodyOf(ls) : ls \in UNION {[1..n -> Lines] : n \in 0..MaxLines}}

MainBodies == {BodyOf(<<ContentModelLine>>)}

\* ------------------------------------------------------------- handlers

ClockEnd == GreetingId + 2 + MaxClock

NextSlot == CHOOSE d \in Slots :
              /\ deliveries[d].pc = "none"
              /\ \A e \in Slots : e < d => deliveries[e].pc # "none"

Finish(dv, pc) == [dv EXCEPT !.pc = pc]

\* A variant that registers the placeholder ahead of the user Message.
AppendBothReversed(msgs, userMessage, assistantMessage) ==
  msgs \o <<assistantMessage, userMessage>>

\* setMessages(prev => [...prev, userMessage]) and then
\* setMessages(prev => [...prev, assistantMessage]) (lines 170 and 181)
AppendBoth(msgs, userMessage, assistantMessage) ==
  msgs \o <<userMessage, assistantMessage>>

\* handleSendMessage (lines 155-323) up to its first await.  hideFirst is
\* handleSuggestedMessage's setShowSuggestions(false) before the call.
SendMessage(customMessage, hideFirst) ==
  LET messageToSend ==
        IF customMessage # <<>> THEN customMessage ELSE Trim(inputValue)
  IN
  IF messageToSend = <<>> \/ isLoading
  THEN /\ showSuggestions' = IF hideFirst THEN FALSE ELSE showSuggestions
       /\ UNCHANGED <<messages, inputValue, isLoading, modelType, offlineFlag,
                      now, replayData, deliveries, nResets>>
  ELSE /\ \E d \in Slots : deliveries[d].pc = "none"
       /\ LET d == NextSlot
                userMessage == Message(now, "user", messageToSend)
                assistantMessageId == now + 1
                msgs == AppendBoth(messages, userMessage,
                          Message(assistantMessageId, "assistant", <<>>))
                started == [NotStarted EXCEPT
                              !.assistantMessageId = assistantMessageId,
                              !.placeholderAt = Len(messages) + 2]
            IN
            /\ inputValue' = <<>>
            /\ showSuggestions' = FALSE
            /\ IF offlineFlag /\ messageToSend \in DOMAIN replayData
               THEN LET scenarioData == replayData[messageToSend] IN
                    IF modelType \in DOMAIN scenarioData
                    THEN /\ messages' = msgs
                         /\ isLoading' = TRUE
                         /\ deliveries' = [deliveries EXCEPT ![d] =
                              [started EXCEPT !.pc = "startDelay",
                                              !.kind = "replay",
                                              !.script = scenarioData[modelType]]]
                    ELSE \* dataToUse.response throws; catch and finally run
                         /\ messages' = SetFailure(msgs, assistantMessageId,
                                                   ReplayErrorText)
                         /\ isLoading' = FALSE
                         /\ deliveries' = [deliveries EXCEPT ![d] =
                              [started EXCEPT !.pc = "error", !.kind = "replay"]]
               ELSE /\ messages' = msgs
                    /\ isLoading' = TRUE
                    /\ deliveries' = [deliveries EXCEPT ![d] =
                         [started EXCEPT !.pc = "fetch", !.kind = "live"]]
            /\ UNCHANGED <<modelType, offlineFlag, now, replayData, nResets>>

\* handleSendMessage() from the Enter key or the send button
HandleSendMessage == SendMessage(<<>>, FALSE)

\* handleSuggestedMessage (lines 59-62)
HandleSuggestedMessage(messageText) == SendMessage(messageText, TRUE)

\* handleReset (lines 64-70).  Nothing in it reaches the calls in flight; the
\* model marks them as belonging to the conversation that was replaced.
HandleReset ==
  /\ nResets < MaxResets
  /\ nResets' = nResets + 1
  /\ messages' = initialMessages
  /\ inputValue' = <<>>
  /\ isLoading' = FALSE
  /\ modelType' = "router"
  /\ showSuggestions' = TRUE
  /\ deliveries' = [d \in Slots |->
       IF InFlight(d) THEN [deliveries[d] EXCEPT !.abandoned = TRUE]
       ELSE deliveries[d]]
  /\ UNCHANGED <<offlineFlag, now, replayData>>

InputValues == {<<" ">>, <<"h", " ">>}

\* onChange of the input (line 526)
SetInputValue(v) ==
  /\ inputValue' = v
  /\ UNCHANGED <<messages, isLoading, modelType, showSuggestions, offlineFlag,
                 now, replayData, deliveries, nResets>>

\* onValueChange of the select (line 506)
SetModelType(v) ==
  /\ modelType # v
  /\ modelType' = v
  /\ UNCHANGED <<messages, inputValue, isLoading, showSuggestions, offlineFlag,
                 now, replayData, deliveries, nResets>>

\* Another component flips sessionStorage's offlineMode.
ToggleOffline ==
  /\ offlineFlag' = ~offlineFlag
  /\ UNCHANGED <<messages, inputValue, isLoading, modelType, showSuggestions,
                 now, replayData, deliveries, nResets>>

\* A millisecond passes.
Tick ==
  /\ now < ClockEnd
  /\ now' = now + 1
  /\ UNCHANGED <<messages, inputValue, isLoading, modelType, showSuggestions,
                 offlineFlag, replayData, deliveries, nResets>>

\* --------------------------------------------- simulateStreamingResponse

\* The for loop of lines 127-143 from chunk dv.i on, up to the next await or,
\* past the last chunk, lines 146-152 and the caller's finally (line 213).
ReplayLoop(d, dv) ==
  LET id == dv.assistantMessageId
      n == Len(dv.chunks)
      acc == IF dv.i < n THEN dv.accumulatedContent \o dv.chunks[dv.i + 1]
             ELSE dv.accumulatedContent
      msgs == IF dv.i < n THEN SetContent(messages, id, Trim(acc)) ELSE messages
      applied == IF dv.i < n THEN dv.applied + 1 ELSE dv.applied
  IN
  IF dv.i < n - 1
  THEN /\ messages' = msgs
       /\ deliveries' = [deliveries EXCEPT ![d] =
            [dv EXCEPT !.pc = "chunkDelay",
                       !.accumulatedContent = acc,
                       !.applied = applied,
                       !.waits = Append(@, DelayPerChunk(dv.script, n)),
                       !.i = @ + 1]]
       /\ UNCHANGED isLoading
  ELSE /\ messages' = SetModelName(msgs, id, dv.script.model)
       /\ isLoading' = FALSE
       /\ deliveries' = [deliveries EXCEPT ![d] =
            Finish([dv EXCEPT !.accumulatedContent = acc,
                              !.applied = applied,
                              !.i = n], "done")]

\* setTimeout(resolve, startDelayMs) fires (line 112)
StartDelayElapsed(d) ==
  /\ deliveries[d].pc = "startDelay"
  /\ ReplayLoop(d, [deliveries[d] EXCEPT
       !.chunks = MakeChunks(deliveries[d].script.response,
                             deliveries[d].script.wordsPerChunk)])
  /\ UNCHANGED <<inputValue, modelType, showSuggestions, offlineFlag, now,
                 replayData, nResets>>

\* setTimeout(resolve, delayPerChunk) fires (line 141)
ChunkDelayElapsed(d) ==
  /\ deliveries[d].pc = "chunkDelay"
  /\ ReplayLoop(d, deliveries[d])
  /\ UNCHANGED <<inputValue, modelType, showSuggestions, offlineFlag, now,
                 replayData, nResets>>

\* ------------------------------------------------------------ live path

\* A variant of the handler that only logs: the placeholder keeps what it
\* holds.
OuterCatchSilent(d, dv, msgs) ==
  /\ messages' = msgs
  /\ isLoading' = FALSE
  /\ deliveries' = [deliveries EXCEPT ![d] = [dv EXCEPT !.pc = "error"]]

\* catch (error) and finally of lines 311-322
OuterCatch(d, dv, msgs) ==
  /\ messages' = SetFailure(msgs, dv.assistantMessageId, ErrorText)
  /\ isLoading' = FALSE
  /\ deliveries' = [deliveries EXCEPT ![d] = Finish(dv, "error")]

\* A variant whose normal end does not reach setIsLoading(false).
AfterLoopStillLoading(d, dv, msgs) ==
  /\ messages' = NoContentFallback(msgs, dv.assistantMessageId,
                                   dv.accumulatedContent)
  /\ isLoading' = isLoading
  /\ deliveries' = [deliveries EXCEPT ![d] = Finish(dv, "done")]

\* The read loop is left: lines 300-309 and finally
AfterLoop(d, dv, msgs) ==
  /\ messages' = NoContentFallback(msgs, dv.assistantMessageId,
                                   dv.accumulatedContent)
  /\ isLoading' = FALSE
  /\ deliveries' = [deliveries EXCEPT ![d] = Finish(dv, "done")]

FetchFailures == {"rejected", "notOk", "noBody"}

\* await fetch(...) settles (lines 220-242): the request is rejected, the
\* status is not a success, the response has no body, or the body of the
\* response, one of bodies, is about to be read.
FetchSettles(d, bodies) ==
  /\ deliveries[d].pc = "fetch"
  /\ \/ \E failure \in FetchFailures :
          OuterCatch(d, [deliveries[d] EXCEPT !.failure = failure], messages)
     \/ \E body \in bodies :
          /\ deliveries' = [deliveries EXCEPT ![d] =
               [@ EXCEPT !.pc = "read", !.body = body]]
          /\ UNCHANGED <<messages, isLoading>>
  /\ UNCHANGED <<inputValue, modelType, showSuggestions, offlineFlag, now,
                 replayData, nResets>>

\* await reader.read() yields the next tokens of the body (lines 248-298)
ReadFragment(d) ==
  /\ deliveries[d].pc = "read"
  /\ \E k \in 1..(Len(deliveries[d].body) - deliveries[d].pos) :
       LET dv == deliveries[d]
           fragment == SubSeq(dv.body, dv.pos + 1, dv.pos + k)
           st == ApplyFragment(LoopState(dv, messages), fragment,
                               dv.assistantMessageId)
           after == [dv EXCEPT !.pos = @ + k,
                               !.accumulatedContent = st.accumulatedContent,
                               !.applied = st.applied,
                               !.sawError = st.sawError]
       IN
       IF st.thrown # "none" THEN OuterCatch(d, after, st.messages)
       ELSE IF st.isDone THEN AfterLoop(d, after, st.messages)
       ELSE /\ messages' = st.messages
            /\ deliveries' = [deliveries EXCEPT ![d] = after]
            /\ UNCHANGED isLoading
  /\ UNCHANGED <<inputValue, modelType, showSuggestions, offlineFlag, now,
                 replayData, nResets>>

\* await reader.read() yields done: true at the end of the body (line 250)
ReadEnd(d) ==
  /\ deliveries[d].pc = "read"
  /\ deliveries[d].pos = Len(deliveries[d].body)
  /\ AfterLoop(d, deliveries[d], messages)
  /\ UNCHANGED <<inputValue, modelType, showSuggestions, offlineFlag, now,
                 replayData, nResets>>

\* await reader.read() rejects: the connection broke (line 248)
ReadFails(d) ==
  /\ deliveries[d].pc = "read"
  /\ OuterCatch(d, [deliveries[d] EXCEPT !.failure = "read"], messages)
  /\ UNCHANGED <<inputValue, modelType, showSuggestions, offlineFlag, now,
                 replayData, nResets>>

\* -------------------------------------------------------- specifications

Next ==
  \/ HandleSendMessage
  \/ \E t \in suggestedMessages : HandleSuggestedMessage(t)
  \/ HandleReset
  \/ \E v \in InputValues : SetInputValue(v)
  \/ \E v \in {"router", "benchmark"} : SetModelType(v)
  \/ ToggleOffline
  \/ Tick
  \/ \E d \in Slots : StartDelayElapsed(d)
  \/ \E d \in Slots : ChunkDelayElapsed(d)
  \/ \E d \in Slots : FetchSettles(d, MainBodies)
  \/ \E d \in Slots : ReadFragment(d)
  \/ \E d \in Slots : ReadEnd(d)
  \/ \E d \in Slots : ReadFails(d)

Spec == Init /\ [][Next]_vars

\* One conversation turn, on either path, over every script and every body
\* within the bounds: the replay scripts when the offline flag is set, the
\* bodies a backend may send when it is not.
Alphabet == {"a", "b", " "}

Texts == UNION {[1..n -> Alphabet] : n \in 0..MaxTextLen}

Timings == {<<0, 100>>, <<100, 100>>, <<100, 300>>}

ReplayScripts ==
  {Script(r, t[1], t[2], c, "R") :
     r \in Texts, t \in Timings, c \in 1..MaxWordsPerChunk}

NoneStarted == \A d \in Slots : deliveries[d].pc = "none"

InitTurn ==
  /\ messages = initialMessages
  /\ inputValue = <<>>
  /\ isLoading = FALSE
  /\ modelType = "router"
  /\ showSuggestions = TRUE
  /\ now = GreetingId + 2
  /\ deliveries = [d \in Slots |-> NotStarted]
  /\ nResets = 0
  /\ \/ /\ offlineFlag = TRUE
        /\ replayData \in {SimpleText :> [router |-> s] : s \in ReplayScripts}
     \/ /\ offlineFlag = FALSE
        /\ replayData = FixedReplayData

NextTurn ==
  \/ NoneStarted /\ HandleSuggestedMessage(SimpleText)
  \/ \E d \in Slots : StartDelayElapsed(d)
  \/ \E d \in Slots : ChunkDelayElapsed(d)
  \/ \E d \in Slots : FetchSettles(d, Bodies)
  \/ \E d \in Slots : ReadFragment(d)
  \/ \E d \in Slots : ReadEnd(d)
  \/ \E d \in Slots : ReadFails(d)

SpecTurn == InitTurn /\ [][NextTurn]_vars

\* The calls of handleSendMessage by their argument: none (the Enter key and
\* the send button), a text of blanks, a suggested text.
CustomMessages == {<<>>, <<" ">>} \cup suggestedMessages

\* A body that ends on a done line and one that carries an error line and
\* just ends.
CallBodies == {BodyOf(<<ContentLine, DoneLine>>), BodyOf(<<ErrorLine>>)}

\* The timers of a replay: setTimeout calls its callback (lines 112 and 141).
Timers(d) == StartDelayElapsed(d) \/ ChunkDelayElapsed(d)

\* await reader.read() settles (line 248)
Reads(d) == ReadFragment(d) \/ ReadEnd(d) \/ ReadFails(d)

NextCall ==
  \/ \E c \in CustomMessages : SendMessage(c, FALSE)
  \/ \E v \in InputValues : SetInputValue(v)
  \/ \E d \in Slots : Timers(d)
  \/ \E d \in Slots : FetchSettles(d, CallBodies)
  \/ \E d \in Slots : Reads(d)

SpecCall == Init /\ [][NextCall]_vars

\* The producers finish: a timer that was set fires, a request settles, a
\* read of the body settles.
FairCall ==
  /\ SpecCall
  /\ \A d \in Slots :
       /\ WF_vars(Timers(d))
       /\ WF_vars(FetchSettles(d, CallBodies))
       /\ WF_vars(Reads(d))

\* --------------------------------------------------------------- claims

\* The places in the list of the Messages that carry the id.
Carrying(msgs, id) == {k \in DOMAIN msgs : msgs[k].id = id}

CeilDiv(a, b) == (a + b - 1) \div b

Abs(x) == IF x < 0 THEN -x ELSE x

RatEq(a, b) == a.num * b.den = b.num * a.den

RatAdd(a, b) == [num |-> a.num * b.den + b.num * a.den, den |-> a.den * b.den]

\* The sum of the delays a replay has waited between its chunks.
RECURSIVE SumWaits(_)
SumWaits(waits) ==
  IF waits = <<>> THEN [num |-> 0, den |-> 1]
  ELSE RatAdd(Head(waits), SumWaits(Tail(waits)))

\* C1: in every reachable state at most one delivery is in flight for the
\* conversation, and a call of handleSendMessage made while a delivery is in
\* flight changes neither messages nor isLoading nor any other conversation
\* state.
C1_OneDeliveryInFlight ==
  [][/\ Cardinality({d \in Slots : deliveries'[d].pc \in InFlightPcs}) <= 1
     /\ (\E d \in Slots : InFlight(d)) =>
          \A c \in suggestedMessages \cup {<<>>} :
            SendMessage(c, FALSE) =>
              UNCHANGED <<messages, inputValue, isLoading, modelType,
                          showSuggestions, deliveries>>]_vars

\* C2: while a delivery is in flight, on the replay path and on the live
\* path, its assistant placeholder carries no modelName; the name becomes
\* visible only with the terminal update.
C2_ModelNameWithheld ==
  \A d \in Slots :
    InFlight(d) =>
      \A k \in Carrying(messages, deliveries[d].assistantMessageId) :
        messages[k].role = "assistant" => messages[k].modelName = NoModel

\* C3: once a live line with a non-empty error field has been met, the
\* delivery has ended in Error: its assistant Message holds the fixed apology
\* text and no modelName, and nothing of a later line is applied.
C3_ErrorLineTerminates ==
  \A d \in Slots :
    deliveries[d].sawError =>
      /\ deliveries[d].pc = "error"
      /\ \A k \in Carrying(messages, deliveries[d].assistantMessageId) :
           /\ messages[k].content = ErrorText
           /\ messages[k].modelName = NoModel

\* C4: a delivery that was in flight when handleReset ran makes no further
\* update: no step of it changes a Message or the in-progress flag of the
\* conversation that replaced its own.
C4_AbandonedDeliveryIsSilent ==
  [][\A d \in Slots :
       (InFlight(d) /\ deliveries[d].abandoned
          /\ deliveries'[d] # deliveries[d]) =>
         (messages' = messages /\ isLoading' = isLoading)]_vars

\* C5: the in-progress flag set for a delivery is not cleared before that
\* delivery is terminal: isLoading is true in every state in which a delivery
\* is still Pending or Streaming.
C5_LoadingUntilTerminal ==
  \A d \in Slots : InFlight(d) => isLoading

\* C6 as stated: a finished replay has applied exactly ceil(W/C) content
\* chunks and the final content of its assistant Message equals the script
\* text.
C6_ReplayEqualsText ==
  \A d \in Slots :
    (deliveries[d].kind = "replay" /\ deliveries[d].pc = "done") =>
      LET dv == deliveries[d]
          W == Len(Split(dv.script.response, " "))
      IN /\ dv.applied = CeilDiv(W, dv.script.wordsPerChunk)
         /\ \A k \in Carrying(messages, dv.assistantMessageId) :
              messages[k].content = dv.script.response

\* C6 as amended: a replay that finishes has applied exactly ceil(W/C)
\* content chunks, W being the number of pieces split(' ') cuts the script
\* text into; what it accumulated is the script text followed by one space,
\* every word once and in order; as it finishes, the content of every Message
\* carrying its id is the script text without its leading and trailing
\* whitespace.
C6_ReplayEqualsTrimmedText ==
  [][\A d \in Slots :
       (/\ InFlight(d)
        /\ deliveries'[d].pc = "done"
        /\ deliveries'[d].kind = "replay") =>
         LET dv == deliveries'[d]
             W == Len(Split(dv.script.response, " "))
         IN /\ dv.applied = CeilDiv(W, dv.script.wordsPerChunk)
            /\ Len(dv.chunks) = CeilDiv(W, dv.script.wordsPerChunk)
            /\ dv.accumulatedContent = dv.script.response \o <<" ">>
            /\ \A k \in Carrying(messages', dv.assistantMessageId) :
                 messages'[k].content = Trim(dv.script.response)]_vars

\* A replay of three words in chunks of two has finished: the last chunk is
\* the shorter one, and the text started with whitespace.
C6_Witness ==
  \E d \in Slots :
    /\ deliveries[d].kind = "replay"
    /\ deliveries[d].pc = "done"
    /\ deliveries[d].script.response = <<" ", "a", " ", "b">>
    /\ deliveries[d].script.wordsPerChunk = 2
    /\ deliveries[d].applied = 2
    /\ \E k \in Carrying(messages, deliveries[d].assistantMessageId) :
         messages[k].content = <<"a", " ", "b">>

\* C7 as stated: the delays a finished replay of N > 1 chunks has waited
\* between its chunks add up to totalDurationMs - startDelayMs, within one
\* millisecond of rounding per delay; a replay of N <= 1 chunks has waited
\* none.
C7_DelaysSumToDuration ==
  \A d \in Slots :
    (deliveries[d].kind = "replay" /\ deliveries[d].pc = "done") =>
      LET dv == deliveries[d]
          n == Len(dv.chunks)
          duration == dv.script.finishStreamingMs - dv.script.startStreamingMs
          sum == SumWaits(dv.waits)
      IN IF n > 1
         THEN Abs(sum.num - duration * sum.den) <= Len(dv.waits) * sum.den
         ELSE dv.waits = <<>>

\* C7 as amended: a finished replay of N > 1 chunks has waited N - 1 delays
\* of (totalDurationMs - startDelayMs) / N each, which add up to
\* (N - 1) / N of totalDurationMs - startDelayMs; a replay of N <= 1 chunks
\* has waited none.
C7_DelaysSumShort ==
  \A d \in Slots :
    (deliveries[d].kind = "replay" /\ deliveries[d].pc = "done") =>
      LET dv == deliveries[d]
          n == Len(dv.chunks)
          duration == dv.script.finishStreamingMs - dv.script.startStreamingMs
      IN IF n > 1
         THEN /\ Len(dv.waits) = n - 1
              /\ RatEq(SumWaits(dv.waits),
                       [num |-> (n - 1) * duration, den |-> n])
         ELSE dv.waits = <<>>

\* A replay of two chunks over 200 ms of streaming has finished.
C7_Witness ==
  \E d \in Slots :
    /\ deliveries[d].kind = "replay"
    /\ deliveries[d].pc = "done"
    /\ Len(deliveries[d].chunks) = 2
    /\ deliveries[d].script.startStreamingMs = 100
    /\ deliveries[d].script.finishStreamingMs = 300
    /\ Len(deliveries[d].waits) = 1

\* C8: what a live delivery that has read the whole body and ended normally
\* has accumulated does not depend on how the body was cut into fragments: it
\* is what the body yields when it arrives as one fragment.
C8_FragmentationIndependent ==
  \A d \in Slots :
    (/\ deliveries[d].kind = "live"
     /\ deliveries[d].pc = "done"
     /\ deliveries[d].pos = Len(deliveries[d].body)) =>
      deliveries[d].accumulatedContent =
        ApplyFragment(LoopState(NotStarted, messages), deliveries[d].body,
                      deliveries[d].assistantMessageId).accumulatedContent

\* A line is well formed when it has the prefix and its payload parses.
IsWellFormed(line) == StartsWithData(line) /\ JSONparse(Tail(line)).ok

CarriesError(line) == IsWellFormed(line) /\ JSONparse(Tail(line)).error # ""

\* C9: the lines of a fragment that lack the prefix or fail to parse leave no
\* trace: the fragment has the effect, on the accumulated content and on the
\* Messages, of its well-formed lines alone, in their order, and the delivery
\* does not end in Error on a fragment without a line that carries an error.
C9_MalformedLinesSkipped ==
  [][\A d \in Slots :
       (deliveries[d].pc = "read" /\ deliveries'[d].pos > deliveries[d].pos) =>
         LET dv == deliveries[d]
             lines == Split(SubSeq(dv.body, dv.pos + 1, deliveries'[d].pos),
                            "\n")
             kept == SelectSeq(lines, IsWellFormed)
             st == ApplyLines(LoopState(dv, messages), kept,
                              dv.assistantMessageId)
         IN /\ deliveries'[d].accumulatedContent = st.accumulatedContent
            /\ deliveries'[d].pc = "read" => messages' = st.messages
            /\ deliveries'[d].pc = "error" =>
                 \E i \in DOMAIN lines : CarriesError(lines[i])]_vars

\* A body of a line that is not JSON, a comment line and a content line has
\* been read to its end, each line in a fragment of its own or not: the
\* content of the third line is there and the delivery has not failed.
C9_Witness ==
  \E d \in Slots :
    /\ deliveries[d].kind = "live"
    /\ deliveries[d].body = BodyOf(<<NotJsonLine, CommentLine, ContentLine>>)
    /\ deliveries[d].pos = Len(deliveries[d].body)
    /\ deliveries[d].pc \in {"read", "done"}
    /\ deliveries[d].accumulatedContent = <<"H">>
    /\ \E k \in Carrying(messages, deliveries[d].assistantMessageId) :
         messages[k].content = <<"H">>

SetsDone(line) ==
  /\ IsWellFormed(line)
  /\ JSONparse(Tail(line)).error = ""
  /\ JSONparse(Tail(line)).done

\* The lines of a fragment up to and including the first that sets isDone.
RECURSIVE UpToDone(_)
UpToDone(lines) ==
  IF lines = <<>> THEN <<>>
  ELSE IF SetsDone(Head(lines)) THEN <<Head(lines)>>
  ELSE <<Head(lines)>> \o UpToDone(Tail(lines))

\* C11: once a live delivery has applied a done line, nothing that follows
\* changes its assistant Message: a fragment has the effect of its lines up
\* to and including the done line, the content and model fields of the lines
\* after it being no-ops, and a delivery that is done takes no further step.
C11_NothingAppliedAfterDone ==
  [][\A d \in Slots :
       /\ (deliveries[d].pc = "read" /\ deliveries'[d].pos > deliveries[d].pos) =>
            LET dv == deliveries[d]
                lines == Split(SubSeq(dv.body, dv.pos + 1, deliveries'[d].pos),
                               "\n")
                st == ApplyLines(LoopState(dv, messages), UpToDone(lines),
                                 dv.assistantMessageId)
            IN /\ deliveries'[d].accumulatedContent = st.accumulatedContent
               /\ messages' =
                    IF deliveries'[d].pc = "done"
                    THEN NoContentFallback(st.messages, dv.assistantMessageId,
                                           st.accumulatedContent)
                    ELSE st.messages
       /\ deliveries[d].pc = "done" => deliveries'[d] = deliveries[d]]_vars

\* C12: when the live request returns a non-success status, or a response
\* without a readable body, the delivery, which has applied no content chunk,
\* ends with one update: every Message carrying its id gets the fixed apology
\* text and no modelName, every other Message is left as it is, and the
\* delivery takes no further step.
C12_RequestFailureOneUpdate ==
  [][\A d \in Slots :
       /\ deliveries[d].pc = "fetch" => deliveries[d].applied = 0
       /\ (/\ deliveries[d].pc = "fetch"
           /\ deliveries'[d].pc = "error"
           /\ deliveries'[d].failure \in {"notOk", "noBody"}) =>
            /\ deliveries'[d].applied = 0
            /\ deliveries'[d].accumulatedContent = <<>>
            /\ ~isLoading'
            /\ Len(messages') = Len(messages)
            /\ \A k \in DOMAIN messages :
                 IF messages[k].id = deliveries[d].assistantMessageId
                 THEN /\ messages'[k].content = ErrorText
                      /\ messages'[k].modelName = NoModel
                      /\ messages'[k].id = messages[k].id
                      /\ messages'[k].role = messages[k].role
                 ELSE messages'[k] = messages[k]
       /\ deliveries[d].pc = "error" => deliveries'[d] = deliveries[d]]_vars

\* The request of a delivery came back with a non-success status: the
\* placeholder holds the apology text.
C12_Witness ==
  \E d \in Slots :
    /\ deliveries[d].kind = "live"
    /\ deliveries[d].pc = "error"
    /\ deliveries[d].failure = "notOk"
    /\ deliveries[d].applied = 0
    /\ Len(messages) >= deliveries[d].placeholderAt
    /\ messages[deliveries[d].placeholderAt].content = ErrorText
    /\ messages[deliveries[d].placeholderAt].modelName = NoModel

\* C13: a submission is routed through replay exactly when the offline flag
\* read at the submission is set and the replay data hold a script for the
\* submitted text and the selected mode; every other accepted submission,
\* that of a text with a scenario but no script for the selected mode
\* included, opens a live request.
C13_RoutedByFlagTextAndMode ==
  [][\A d \in Slots :
       (deliveries[d].pc = "none" /\ deliveries'[d].pc # "none") =>
         LET text == messages'[deliveries'[d].placeholderAt - 1].content
             hasScript == /\ offlineFlag
                          /\ text \in DOMAIN replayData
                          /\ modelType \in DOMAIN replayData[text]
         IN IF hasScript
            THEN deliveries'[d].kind = "replay" /\ deliveries'[d].pc = "startDelay"
            ELSE deliveries'[d].kind = "live" /\ deliveries'[d].pc = "fetch"]_vars

\* C14: in every reachable state no two Messages of the conversation carry
\* the same id, whatever the submissions, the resets and the clock readings.
C14_IdsUnique ==
  \A j, k \in DOMAIN messages : j # k => messages[j].id # messages[k].id

\* The place of the Message a delivery may update: its placeholder, as long as
\* the conversation it was appended to has not been replaced.
OwnPlaceholder(d) ==
  IF deliveries[d].abandoned THEN {} ELSE {deliveries[d].placeholderAt}

\* C15: a step of a delivery in flight leaves the length and the order of the
\* list, and the id and the role of every Message, as they are, and changes
\* no Message but the delivery's own placeholder: the user Messages, the
\* greeting and the placeholders of other deliveries keep their content and
\* their modelName.
C15_UpdatesOnlyOwnPlaceholder ==
  [][\A d \in Slots :
       (/\ InFlight(d)
        /\ deliveries'[d] # deliveries[d]
        /\ nResets' = nResets) =>
         /\ Len(messages') = Len(messages)
         /\ \A k \in DOMAIN messages :
              /\ messages'[k].id = messages[k].id
              /\ messages'[k].role = messages[k].role
              /\ k \notin OwnPlaceholder(d) => messages'[k] = messages[k]]_vars

\* C16: an accepted submission appends the user Message and then the
\* assistant placeholder, adjacent and in that order, and nothing else: the
\* list grows by exactly two.  When the call suspends at its first timer wait
\* or at its request, the Messages before them are as they were and the
\* placeholder has an empty content and no modelName.
C16_BothAppendedBeforeFirstAwait ==
  [][\A d \in Slots :
       (deliveries[d].pc = "none" /\ deliveries'[d].pc # "none") =>
         LET n == Len(messages)
             dv == deliveries'[d]
         IN /\ Len(messages') = n + 2
            /\ dv.placeholderAt = n + 2
            /\ messages'[n + 1].role = "user"
            /\ messages'[n + 1].id = now
            /\ messages'[n + 1].content \in CustomMessages \cup {Trim(inputValue)}
            /\ messages'[n + 1].content # <<>>
            /\ messages'[n + 2].role = "assistant"
            /\ messages'[n + 2].id = dv.assistantMessageId
            /\ dv.pc \in InFlightPcs =>
                 /\ SubSeq(messages', 1, n) = messages
                 /\ messages'[n + 2].content = <<>>
                 /\ messages'[n + 2].modelName = NoModel
                 /\ dv.applied = 0
                 /\ isLoading']_vars

\* A submission has been accepted and waits for its request: the user
\* Message and the empty placeholder end the list.
C16_Witness ==
  \E d \in Slots :
    /\ deliveries[d].pc = "fetch"
    /\ ~deliveries[d].abandoned
    /\ Len(messages) = deliveries[d].placeholderAt
    /\ Len(messages) = Len(initialMessages) + 2
    /\ messages[Len(messages) - 1].role = "user"
    /\ messages[Len(messages) - 1].content = SimpleText
    /\ messages[Len(messages)].role = "assistant"
    /\ messages[Len(messages)].content = <<>>
    /\ messages[Len(messages)].modelName = NoModel

Terminal(d) == deliveries[d].pc \in {"done", "error"}

\* C17: every delivery whose producer finishes reaches a terminal state, Done
\* or Error; the step that takes it there leaves isLoading false; and a call
\* of handleSendMessage with a non-empty message made while isLoading is
\* false is accepted.
C17_TerminalReturnsToIdle ==
  /\ \A d \in Slots : InFlight(d) ~> Terminal(d)
  /\ [][/\ \A d \in Slots : (InFlight(d) /\ Terminal(d)') => ~isLoading'
        /\ \A c \in CustomMessages :
             (/\ SendMessage(c, FALSE)
              /\ ~isLoading
              /\ (c # <<>> \/ Trim(inputValue) # <<>>)) =>
               /\ Len(messages') = Len(messages) + 2
               /\ \E d \in Slots : ~InFlight(d) /\ deliveries'[d].pc # "none"]_vars

\* A delivery has ended in Error and the submission made after it has been
\* accepted and has ended in Done.
C17_Witness ==
  /\ deliveries[1].pc = "error"
  /\ deliveries[2].pc = "done"
  /\ ~isLoading
  /\ Len(messages) = Len(initialMessages) + 4

\* C18: when the read of the body fails after content chunks, and possibly a
\* model name, were applied, the delivery ends in Error and every Message
\* carrying its id holds the fixed apology text and no modelName: nothing of
\* the partial reply is left in it.
C18_PartialReplyReplaced ==
  [][\A d \in Slots :
       (/\ deliveries[d].pc = "read"
        /\ deliveries[d].applied > 0
        /\ deliveries'[d].pc = "error") =>
         /\ ~isLoading'
         /\ Len(messages') = Len(messages)
         /\ \A k \in Carrying(messages', deliveries[d].assistantMessageId) :
              /\ messages'[k].content = ErrorText
              /\ messages'[k].modelName = NoModel]_vars

\* The read failed after a content chunk and a model name had been written to
\* the placeholder, which now holds the apology text.
C18_Witness ==
  \E d \in Slots :
    /\ deliveries[d].pc = "error"
    /\ deliveries[d].failure = "read"
    /\ deliveries[d].body = BodyOf(<<ContentLine, ContentModelLine, ContentLine>>)
    /\ deliveries[d].accumulatedContent = <<"H", "i">>
    /\ deliveries[d].applied = 2
    /\ messages[deliveries[d].placeholderAt].content = ErrorText
    /\ messages[deliveries[d].placeholderAt].modelName = NoModel

IsPrefix(a, b) == Len(a) <= Len(b) /\ SubSeq(b, 1, Len(a)) = a

RECURSIVE Concat(_)
Concat(pieces) ==
  IF pieces = <<>> THEN <<>> ELSE Head(pieces) \o Concat(Tail(pieces))

\* What the content fields of the well-formed lines without an error field
\* add up to, in the order of the lines.
RECURSIVE ContentsOf(_)
ContentsOf(lines) ==
  IF lines = <<>> THEN <<>>
  ELSE (IF IsWellFormed(Head(lines)) /\ ~CarriesError(Head(lines))
        THEN JSONparse(Tail(Head(lines))).content ELSE <<>>)
       \o ContentsOf(Tail(lines))

\* What the placeholder shows of an accumulated content.
Shown(kind, acc) == IF kind = "replay" THEN Trim(acc) ELSE acc

\* C20: a step of a delivery that does not end it in Error only extends the
\* content of its placeholder: the content before the step is a prefix of the
\* content after it; a step that applies content chunks leaves in the
\* placeholder all that the delivery has accumulated, which is what it had
\* accumulated before followed by the chunks of the step in their order
\* (without the whitespace at the ends on the replay path); and when Done is
\* reached after a content chunk the placeholder holds the concatenation of
\* all the chunks applied.
C20_ContentOnlyGrows ==
  [][\A d \in Slots :
       (/\ InFlight(d)
        /\ ~deliveries[d].abandoned
        /\ nResets' = nResets
        /\ deliveries'[d] # deliveries[d]
        /\ deliveries'[d].pc # "error") =>
         LET dv == deliveries[d]
             dw == deliveries'[d]
             at == dv.placeholderAt
         IN /\ IsPrefix(messages[at].content, messages'[at].content)
            /\ IsPrefix(dv.accumulatedContent, dw.accumulatedContent)
            /\ dw.applied > dv.applied =>
                 messages'[at].content = Shown(dv.kind, dw.accumulatedContent)
            /\ (dv.kind = "live" /\ dv.pc = "read") =>
                 dw.accumulatedContent =
                   dv.accumulatedContent
                     \o ContentsOf(Split(SubSeq(dv.body, dv.pos + 1, dw.pos), "\n"))
            /\ dv.kind = "replay" =>
                 dw.accumulatedContent = Concat(SubSeq(dw.chunks, 1, dw.i))
            /\ (dw.pc = "done" /\ dw.applied > 0) =>
                 /\ messages'[at].content = Shown(dv.kind, dw.accumulatedContent)
                 /\ dv.kind = "replay" =>
                      /\ dw.applied = Len(dw.chunks)
                      /\ dw.accumulatedContent = Concat(dw.chunks)]_vars

====
